---- MODULE Spec2Model ----
(***************************************************************************)
(* Model of pi_view: the BBP digit series and the Monte Carlo sampling     *)
(* method, each in a serial and a process-per-chunk parallel form          *)
(* (bbp_algo.py, monte_carlo.py), and the benchmark thread and the window  *)
(* that start them (main_gui.py).                                          *)
(*                                                                         *)
(* Python's decimal arithmetic is modelled digit by digit: a coefficient    *)
(* is a sequence of decimal digits, most significant first, so that the    *)
(* precision digits + 10 of the digit series does not meet the width of    *)
(* the model checker's integers.                                           *)
(***************************************************************************)
EXTENDS Integers, Sequences, FiniteSets, TLC

Min(a, b) == IF a < b THEN a ELSE b

Max(a, b) == IF a > b THEN a ELSE b

(***************************************************************************)
(* Unbounded naturals (Python int), as digit sequences without leading     *)
(* zeros; zero is <<0>>.                                                   *)
(***************************************************************************)
Zeros(n) == [i \in 1..n |-> 0]

AllZero(s) == \A i \in 1..Len(s) : s[i] = 0

\* without its leading zeros
Strip(s) ==
  IF AllZero(s) THEN <<0>>
  ELSE LET f == CHOOSE i \in 1..Len(s) :
                  s[i] # 0 /\ \A j \in 1..(i - 1) : s[j] = 0
       IN  SubSeq(s, f, Len(s))

IsZeroNat(a) == a = <<0>>

RECURSIVE NatToDigits(_)
NatToDigits(n) ==
  IF n < 10 THEN <<n>> ELSE NatToDigits(n \div 10) \o <<n % 10>>

PadLeft(a, n) == Zeros(n - Len(a)) \o a

\* -1, 0, 1 as a < b, a = b, a > b
CmpNat(a, b) ==
  IF Len(a) < Len(b) THEN -1
  ELSE IF Len(a) > Len(b) THEN 1
  ELSE IF a = b THEN 0
  ELSE LET i == CHOOSE i \in 1..Len(a) :
                  a[i] # b[i] /\ \A j \in 1..(i - 1) : a[j] = b[j]
       IN  IF a[i] < b[i] THEN -1 ELSE 1

(***************************************************************************)
(* F(e) with e evaluated first.  The model checker passes the arguments of *)
(* an operator unevaluated, and a loop that hands its accumulator on that  *)
(* way nests as deep as the loop is long; the digit loops below split      *)
(* their range in two halves and evaluate one half before the other, so    *)
(* that they nest only as deep as the logarithm of the length.             *)
(***************************************************************************)
Eager(e, F(_)) == CHOOSE r \in {F(x) : x \in {e}} : TRUE

\* digits lo..hi of a + b with the carry c coming in from the right
RECURSIVE AddRange(_, _, _, _, _)
AddRange(a, b, lo, hi, c) ==
  IF lo = hi
  THEN LET s == a[lo] + b[lo] + c
       IN  [d |-> <<s % 10>>, c |-> s \div 10]
  ELSE LET mid == (lo + hi) \div 2
       IN  Eager(AddRange(a, b, mid + 1, hi, c), LAMBDA right :
           Eager(AddRange(a, b, lo, mid, right.c), LAMBDA left :
           [d |-> left.d \o right.d, c |-> left.c]))

AddNat(a, b) ==
  LET n == Max(Len(a), Len(b))
      r == AddRange(PadLeft(a, n), PadLeft(b, n), 1, n, 0)
  IN  Strip((IF r.c = 0 THEN <<>> ELSE <<r.c>>) \o r.d)

\* digits lo..hi of a - b with the borrow c coming in from the right
RECURSIVE SubRange(_, _, _, _, _)
SubRange(a, b, lo, hi, c) ==
  IF lo = hi
  THEN LET s == a[lo] - b[lo] - c
       IN  IF s < 0 THEN [d |-> <<s + 10>>, c |-> 1] ELSE [d |-> <<s>>, c |-> 0]
  ELSE LET mid == (lo + hi) \div 2
       IN  Eager(SubRange(a, b, mid + 1, hi, c), LAMBDA right :
           Eager(SubRange(a, b, lo, mid, right.c), LAMBDA left :
           [d |-> left.d \o right.d, c |-> left.c]))

\* a - b for a >= b
SubNat(a, b) ==
  LET n == Len(a)
  IN  Strip(SubRange(a, PadLeft(b, n), 1, n, 0).d)

\* digits lo..hi of a * m with the carry c coming in from the right
RECURSIVE MulSmallRange(_, _, _, _, _)
MulSmallRange(a, m, lo, hi, c) ==
  IF lo = hi
  THEN LET s == a[lo] * m + c
       IN  [d |-> <<s % 10>>, c |-> s \div 10]
  ELSE LET mid == (lo + hi) \div 2
       IN  Eager(MulSmallRange(a, m, mid + 1, hi, c), LAMBDA right :
           Eager(MulSmallRange(a, m, lo, mid, right.c), LAMBDA left :
           [d |-> left.d \o right.d, c |-> left.c]))

\* a * m for a small machine integer m
MulSmall(a, m) ==
  LET r == MulSmallRange(a, m, 1, Len(a), 0)
  IN  Strip((IF r.c = 0 THEN <<>> ELSE NatToDigits(r.c)) \o r.d)

\* acc after the digits lo..hi of b: acc * 10 + a * b[i] for each
RECURSIVE MulRange(_, _, _, _, _)
MulRange(a, b, lo, hi, acc) ==
  IF lo = hi
  THEN AddNat(Strip(acc \o <<0>>), MulSmall(a, b[lo]))
  ELSE LET mid == (lo + hi) \div 2
       IN  Eager(MulRange(a, b, lo, mid, acc), LAMBDA left :
           MulRange(a, b, mid + 1, hi, left))

MulNat(a, b) ==
  Eager(a, LAMBDA x : Eager(b, LAMBDA y : MulRange(x, y, 1, Len(y), <<0>>)))

\* one step of long division: how many times b fits in r (at most 9), with
\* what is left
Fit(r, b) ==
  LET q == Cardinality({m \in 1..9 : CmpNat(MulSmall(b, m), r) <= 0})
  IN  [q |-> q, r |-> IF q = 0 THEN r ELSE SubNat(r, MulSmall(b, q))]

\* long division over the digits lo..hi of a, the remainder r coming in
RECURSIVE DivRange(_, _, _, _, _)
DivRange(a, b, lo, hi, r) ==
  IF lo = hi
  THEN Eager(Strip(r \o <<a[lo]>>), LAMBDA x :
       Eager(Fit(x, b), LAMBDA f : [q |-> <<f.q>>, r |-> f.r]))
  ELSE LET mid == (lo + hi) \div 2
       IN  Eager(DivRange(a, b, lo, mid, r), LAMBDA left :
           Eager(DivRange(a, b, mid + 1, hi, left.r), LAMBDA right :
           [q |-> left.q \o right.q, r |-> right.r]))

\* divmod(a, b) for b > 0
DivModNat(a, b) ==
  Eager(a, LAMBDA x : Eager(b, LAMBDA y :
  Eager(DivRange(x, y, 1, Len(x), <<0>>), LAMBDA d :
  [q |-> Strip(d.q), r |-> d.r])))

RECURSIVE PowNat(_, _)
PowNat(base, k) ==
  IF k = 0 THEN <<1>> ELSE MulSmall(PowNat(base, k - 1), base)

(***************************************************************************)
(* decimal.Decimal: sign, coefficient (_int) and exponent (_exp), with the *)
(* context precision passed to every operation that rounds.                *)
(***************************************************************************)
Dec(sign, int, exp) == [sign |-> sign, int |-> int, exp |-> exp]

\* Decimal(n) for a Python int n >= 0: exact, whatever the precision
DecFromNat(n) == Dec(0, n, 0)

DecIsZero(d) == IsZeroNat(d.int)

\* ROUND_HALF_EVEN on the digits dropped after the first prec ones
RoundsUp(int, prec) ==
  LET rest == SubSeq(int, prec + 1, Len(int))
  IN  \/ rest[1] > 5
      \/ /\ rest[1] = 5
         /\ ~AllZero(Tail(rest))
      \/ /\ rest[1] = 5
         /\ AllZero(Tail(rest))
         /\ int[prec] % 2 = 1

\* Decimal._fix: round to the context precision
Fix(d, prec) ==
  IF DecIsZero(d) \/ Len(d.int) <= prec THEN d
  ELSE LET exp_min == Len(d.int) + d.exp - prec
           kept    == SubSeq(d.int, 1, prec)
           coeff   == IF RoundsUp(d.int, prec) THEN AddNat(kept, <<1>>)
                      ELSE kept
       IN  IF Len(coeff) > prec
           THEN Dec(d.sign, SubSeq(coeff, 1, Len(coeff) - 1), exp_min + 1)
           ELSE Dec(d.sign, coeff, exp_min)

\* the coefficient of an exact quotient, brought as close to the ideal
\* exponent as its trailing zeros allow
Ideal(coeff, exp, ideal_exp) ==
  LET n    == Len(coeff)
      cuts == {k \in 0..(n - 1) :
                 \/ k = 0
                 \/ /\ k <= ideal_exp - exp
                    /\ \A j \in (n - k + 1)..n : coeff[j] = 0}
      k    == CHOOSE k \in cuts : \A m \in cuts : m <= k
  IN  [int |-> SubSeq(coeff, 1, n - k), exp |-> exp + k]

\* Decimal.__truediv__ for a nonzero divisor
DecDiv(a, b, prec) ==
  LET sign == (a.sign + b.sign) % 2
  IN  IF DecIsZero(a) THEN Dec(sign, <<0>>, a.exp - b.exp)
      ELSE LET shift == Len(b.int) - Len(a.int) + prec + 1
               exp   == a.exp - b.exp - shift
               dm    == IF shift >= 0
                        THEN DivModNat(a.int \o Zeros(shift), b.int)
                        ELSE DivModNat(a.int, b.int \o Zeros(-shift))
               n     == Len(dm.q)
           IN  IF ~IsZeroNat(dm.r)
               THEN \* inexact: a sticky last digit keeps the rounding right
                    Fix(Dec(sign,
                            IF dm.q[n] % 5 = 0
                            THEN [dm.q EXCEPT ![n] = dm.q[n] + 1] ELSE dm.q,
                            exp), prec)
               ELSE LET i == Ideal(dm.q, exp, a.exp - b.exp)
                    IN  Fix(Dec(sign, i.int, i.exp), prec)

\* a's coefficient at the exponent e <= a.exp
Rescaled(a, e) == IF DecIsZero(a) THEN <<0>> ELSE a.int \o Zeros(a.exp - e)

\* Decimal.__add__
DecAdd(a, b, prec) ==
  LET e == Min(a.exp, b.exp)
  IN  IF DecIsZero(a) /\ DecIsZero(b) THEN Dec(Min(a.sign, b.sign), <<0>>, e)
      ELSE IF DecIsZero(a)
      THEN LET x == Max(e, b.exp - prec - 1)
           IN  Fix(Dec(b.sign, Rescaled(b, x), x), prec)
      ELSE IF DecIsZero(b)
      THEN LET x == Max(e, a.exp - prec - 1)
           IN  Fix(Dec(a.sign, Rescaled(a, x), x), prec)
      ELSE LET A == Rescaled(a, e)
               B == Rescaled(b, e)
               c == CmpNat(A, B)
           IN  IF a.sign = b.sign THEN Fix(Dec(a.sign, AddNat(A, B), e), prec)
               ELSE IF c = 0 THEN Dec(0, <<0>>, e)
               ELSE IF c > 0 THEN Fix(Dec(a.sign, SubNat(A, B), e), prec)
               ELSE Fix(Dec(b.sign, SubNat(B, A), e), prec)

\* Decimal.__sub__: a + (-b)
DecSub(a, b, prec) == DecAdd(a, Dec(1 - b.sign, b.int, b.exp), prec)

\* Decimal.__mul__
DecMul(a, b, prec) ==
  LET sign == (a.sign + b.sign) % 2
  IN  IF DecIsZero(a) \/ DecIsZero(b) THEN Dec(sign, <<0>>, a.exp + b.exp)
      ELSE Fix(Dec(sign, MulNat(a.int, b.int), a.exp + b.exp), prec)

\* Decimal.__pos__: the unary + that applies the context precision
DecPlus(d, prec) ==
  IF DecIsZero(d) THEN Dec(0, <<0>>, d.exp) ELSE Fix(d, prec)

(***************************************************************************)
(* Strings are sequences of one-character strings.                         *)
(***************************************************************************)
DigitChar(d) == <<"0", "1", "2", "3", "4", "5", "6", "7", "8", "9">>[d + 1]

Chars(int) == [i \in 1..Len(int) |-> DigitChar(int[i])]

Repeat(c, n) == [i \in 1..n |-> c]

\* Decimal.__str__: plain notation, or scientific for a positive exponent
\* or more than six leading zeros
DecStr(d) ==
  LET n          == Len(d.int)
      leftdigits == d.exp + n
      dotplace   == IF d.exp <= 0 /\ leftdigits > -6 THEN leftdigits ELSE 1
      intpart    == IF dotplace <= 0 THEN <<"0">>
                    ELSE IF dotplace >= n
                    THEN Chars(d.int) \o Repeat("0", dotplace - n)
                    ELSE Chars(SubSeq(d.int, 1, dotplace))
      fracpart   == IF dotplace <= 0
                    THEN <<".">> \o Repeat("0", -dotplace) \o Chars(d.int)
                    ELSE IF dotplace >= n THEN <<>>
                    ELSE <<".">> \o Chars(SubSeq(d.int, dotplace + 1, n))
      x          == leftdigits - dotplace
      exppart    == IF x = 0 THEN <<>>
                    ELSE IF x > 0 THEN <<"E", "+">> \o Chars(NatToDigits(x))
                    ELSE <<"E", "-">> \o Chars(NatToDigits(-x))
  IN  (IF d.sign = 1 THEN <<"-">> ELSE <<>>) \o intpart \o fracpart \o exppart

\* s[:n]
Prefix(s, n) == SubSeq(s, 1, Min(n, Len(s)))

(***************************************************************************)
(* bbp_algo.py                                                             *)
(***************************************************************************)
\* the guard digits of the digit series: getcontext().prec = digits + 10
BbpGuard == 10

\* a precision without guard digits
BbpPrecNoGuard(digits) == digits

BbpPrec(digits) == digits + BbpGuard

D(n) == DecFromNat(NatToDigits(n))

\* bbp_term(k) under the precision prec of the process that evaluates it
bbp_term(k, prec) ==
  DecMul(DecDiv(D(1), DecFromNat(PowNat(16, k)), prec),
         DecSub(DecSub(DecSub(DecDiv(D(4), D(8 * k + 1), prec),
                              DecDiv(D(2), D(8 * k + 4), prec), prec),
                       DecDiv(D(1), D(8 * k + 5), prec), prec),
                DecDiv(D(1), D(8 * k + 6), prec), prec),
         prec)

\* acc += bbp_term(k) for k in range(start, end)
RECURSIVE SumTerms(_, _, _, _)
SumTerms(acc, start, end, prec) ==
  IF start >= end THEN acc
  ELSE SumTerms(DecAdd(acc, bbp_term(start, prec), prec), start + 1, end, prec)

\* str(+pi)[:digits + 2]
Format(pi, digits, prec) == Prefix(DecStr(DecPlus(pi, prec)), digits + 2)

bbp_serial(digits) ==
  Format(SumTerms(D(0), 0, digits, BbpPrec(digits)), digits, BbpPrec(digits))

\* a sum that keeps only the partial result added last
AddPartialLast(acc, partial, prec) == partial

\* acc + partial, rounded: one addition of sum() in the digit series
AddPartial(acc, partial, prec) == DecAdd(acc, partial, prec)

(***************************************************************************)
(* monte_carlo.py                                                          *)
(***************************************************************************)
\* the guard digits of the sampling method: getcontext().prec = digits + 2
McGuard == 2

McPrec(digits) == digits + McGuard

\* Decimal(4) * Decimal(inside) / Decimal(total_samples)
McValue(inside, total_samples, prec) ==
  DecDiv(DecMul(D(4), D(inside), prec), D(total_samples), prec)

(***************************************************************************)
(* The chunk lists of the two parallel entry points.                       *)
(***************************************************************************)
\* list(range(i, stop, step)) for step >= 1
RECURSIVE Range(_, _, _)
Range(i, stop, step) ==
  IF i >= stop THEN <<>> ELSE <<i>> \o Range(i + step, stop, step)

\* a chunk list whose ends are not cut at the number of terms
BbpChunksUncut(digits, chunk_size) ==
  LET starts == Range(0, digits, chunk_size)
  IN  [j \in 1..Len(starts) |-> <<starts[j], starts[j] + chunk_size>>]

\* [(i, min(i + chunk_size, digits)) for i in range(0, digits, chunk_size)]
BbpChunks(digits, chunk_size) ==
  LET starts == Range(0, digits, chunk_size)
  IN  [j \in 1..Len(starts) |->
         <<starts[j], Min(starts[j] + chunk_size, digits)>>]

\* a chunk list every chunk of which has chunk_size samples
McChunksUncut(total_samples, chunk_size) ==
  LET starts == Range(0, total_samples, chunk_size)
  IN  [j \in 1..Len(starts) |-> <<starts[j], chunk_size>>]

\* [(i, min(chunk_size, total_samples - i))
\*  for i in range(0, total_samples, chunk_size)]
McChunks(total_samples, chunk_size) ==
  LET starts == Range(0, total_samples, chunk_size)
  IN  [j \in 1..Len(starts) |->
         <<starts[j], Min(chunk_size, total_samples - starts[j])>>]

(***************************************************************************)
(* State.                                                                  *)
(*   p_*          : one evaluation of a chunk list comprehension on its own *)
(*   func .. error: one call of one of the four entry points, with the     *)
(*                  worker processes of a parallel call                    *)
(*   the rest     : the window and the benchmark threads it starts         *)
(***************************************************************************)
VARIABLES
  p_total,           \* the amount of work to split: digits or total_samples
  p_chunk,           \* the chunk_size to split it by
  p_units,           \* which comprehension was evaluated, and its list
  func,              \* the entry point called
  digits,            \* its arguments
  chunk_size,
  samples_per_digit,
  pc,                \* where the calling process is in the entry point
  prec,              \* getcontext().prec of the calling process
  start_method,      \* how multiprocessing starts a process: fork or spawn
  chunks,            \* the list chunks
  jobs,              \* the worker processes, in the order of jobs
  return_dict,       \* the manager's dict: chunk index -> partial result
  idx,               \* the loop index of the loop the caller is in
  acc,               \* what sum() holds so far
  read,              \* the slots sum() has read
  result,            \* the string returned
  error,             \* the exception raised
  input_text,        \* input_edit.text()
  algo_combo,        \* algo_combo.currentIndex()
  info_panel,        \* what info_panel shows
  threads,           \* the PiCalcWorker threads, in the order started
  result_files,      \* the result files written, in the order written
  compare            \* the lines of each compare file

partVars == <<p_total, p_chunk, p_units>>

coreVars == <<func, digits, chunk_size, samples_per_digit, pc, prec,
              start_method, chunks, jobs, return_dict, idx, acc, read, result,
              error>>

\* the arguments of the call and the start method of the platform
argVars == <<func, digits, chunk_size, samples_per_digit, start_method>>

guiVars == <<input_text, algo_combo, info_panel, threads, result_files,
             compare>>

vars == <<partVars, coreVars, guiVars>>

\* the largest amount of work and the largest chunk_size of the chunk lists
\* evaluated on their own
MaxWork == 12

MaxChunk == 14

\* the largest digits of a call, the most samples a call draws and the most
\* workers a call starts
MaxDigits == 5

MaxSamples == 4

MaxWorkers == 4

\* decimal.DefaultContext, in what the program reads of it
DefaultContext == [prec |-> 28, rounding |-> "ROUND_HALF_EVEN"]

NoCall ==
  /\ func = "none" /\ digits = 0 /\ chunk_size = 0 /\ samples_per_digit = 0
  /\ pc = "idle" /\ prec = DefaultContext.prec /\ start_method = "fork"
  /\ chunks = <<>>
  /\ jobs = <<>> /\ return_dict = <<>> /\ idx = 0 /\ acc = 0 /\ read = {}
  /\ result = <<>> /\ error = "none"

NoPartition ==
  p_total = 0 /\ p_chunk = 0 /\ p_units = [kind |-> "none", list |-> <<>>]

NoWindow ==
  /\ input_text = <<>> /\ algo_combo = 0 /\ info_panel = "empty"
  /\ threads = <<>>
  /\ result_files = <<>>
  /\ compare = [BBP |-> <<>>, MonteCarlo |-> <<>>]

(***************************************************************************)
(* The chunk list comprehensions on their own.                             *)
(***************************************************************************)
InitPartition ==
  /\ p_total \in 1..MaxWork
  /\ p_chunk \in 1..MaxChunk
  /\ p_units = [kind |-> "none", list |-> <<>>]
  /\ NoCall
  /\ NoWindow

\* bbp_parallel's chunks for digits = p_total
PartitionBbp ==
  /\ p_units.kind = "none"
  /\ p_units' = [kind |-> "bbp", list |-> BbpChunks(p_total, p_chunk)]
  /\ UNCHANGED <<p_total, p_chunk, coreVars, guiVars>>

\* monte_carlo_parallel's chunks for total_samples = p_total
PartitionMc ==
  /\ p_units.kind = "none"
  /\ p_units' = [kind |-> "mc", list |-> McChunks(p_total, p_chunk)]
  /\ UNCHANGED <<p_total, p_chunk, coreVars, guiVars>>

NextPartition == PartitionBbp \/ PartitionMc

SpecPartition == InitPartition /\ [][NextPartition]_vars

\* the half-open interval [UnitLo, UnitHi) of a unit: (start, end) in the
\* digit series, (start, size) in the sampling method
UnitLo(kind, u) == u[1]

UnitHi(kind, u) == IF kind = "bbp" THEN u[2] ELSE u[1] + u[2]

CeilDiv(a, b) == IF a % b = 0 THEN a \div b ELSE a \div b + 1

\* C1: both chunk lists cover [0, total_work) exactly once, without gap or
\* overlap, in ceil(total_work / chunk_size) units, each but possibly the
\* last of length chunk_size, and in one unit when chunk_size >= total_work.
C1_PartitionCovers ==
  p_units.kind # "none" =>
    LET L     == p_units.list
        n     == Len(L)
        lo(j) == UnitLo(p_units.kind, L[j])
        hi(j) == UnitHi(p_units.kind, L[j])
    IN  /\ \A x \in 0..(p_total - 1) :
             Cardinality({j \in 1..n : lo(j) <= x /\ x < hi(j)}) = 1
        /\ \A j \in 1..n : 0 <= lo(j) /\ lo(j) < hi(j) /\ hi(j) <= p_total
        /\ n = CeilDiv(p_total, p_chunk)
        /\ \A j \in 1..(n - 1) : hi(j) - lo(j) = p_chunk
        /\ (p_chunk >= p_total => n = 1)

\* a list of the digit series with three units or more, the last one short
C1_ShortLastUnit ==
  /\ p_units.kind = "bbp"
  /\ Len(p_units.list) >= 3
  /\ LET u == p_units.list[Len(p_units.list)]
     IN  u[2] - u[1] < p_chunk

(***************************************************************************)
(* One call of an entry point.                                             *)
(***************************************************************************)
Serial == {"bbp_serial", "monte_carlo_serial"}

Parallel == {"bbp_parallel", "monte_carlo_parallel"}

Bbp == {"bbp_serial", "bbp_parallel"}

Mc == {"monte_carlo_serial", "monte_carlo_parallel"}

\* total_samples = digits * samples_per_digit
total_samples == digits * samples_per_digit

\* the precision a process has once it has executed the first statement of
\* f, having had the precision before: the entry points and _bbp_worker
\* assign getcontext().prec, _mc_worker does not
EntryPrecKept(f, d, before) == before

EntryPrec(f, d, before) ==
  CASE f \in {"bbp_serial", "bbp_parallel", "_bbp_worker"} -> BbpPrec(d)
    [] f \in {"monte_carlo_serial", "monte_carlo_parallel"} -> McPrec(d)
    [] f = "_mc_worker" -> before

\* whether f assigns getcontext().prec
SetsPrec(f) == f # "_mc_worker"

\* the target of the worker processes of an entry point
Target(f) == IF f = "bbp_parallel" THEN "_bbp_worker" ELSE "_mc_worker"

\* the precision of a process just started: the parent's context copied
\* (fork) or a fresh interpreter's default context (spawn)
StartPrec(method, parent) ==
  IF method = "fork" THEN parent ELSE DefaultContext.prec

\* str(+pi)[:digits + 2] of the sampling method
McFormat(inside, total, d, p) == Format(McValue(inside, total, p), d, p)

\* what sum() starts from: the int 0, which the addition of the first
\* Decimal converts to Decimal(0)
SumStart(f) == IF f = "bbp_parallel" THEN D(0) ELSE 0

InitCall ==
  /\ NoPartition
  /\ NoWindow
  /\ func \in Serial \cup Parallel
  /\ digits \in 1..MaxDigits
  /\ samples_per_digit \in
       IF func \in Mc THEN {s \in 1..MaxSamples : digits * s <= MaxSamples}
       ELSE {0}
  /\ chunk_size \in
       IF func = "bbp_parallel"
       THEN {c \in 1..(2 * MaxDigits) : CeilDiv(digits, c) <= MaxWorkers}
       ELSE IF func = "monte_carlo_parallel"
       THEN {c \in 1..(MaxSamples + 1) :
               CeilDiv(digits * samples_per_digit, c) <= MaxWorkers}
       ELSE {0}
  /\ start_method \in IF func \in Parallel THEN {"fork", "spawn"} ELSE {"fork"}
  /\ pc = "call"
  /\ prec = DefaultContext.prec
  /\ chunks = <<>> /\ jobs = <<>> /\ return_dict = <<>>
  /\ idx = 0 /\ acc = 0 /\ read = {}
  /\ result = <<>> /\ error = "none"

\* bbp_serial(digits); acc is its local pi
BbpSerial ==
  /\ func = "bbp_serial" /\ pc = "call"
  /\ prec' = EntryPrec(func, digits, prec)
  /\ acc' = SumTerms(D(0), 0, digits, prec')
  /\ result' = Format(acc', digits, prec')
  /\ pc' = "return"
  /\ UNCHANGED <<partVars, guiVars, argVars, chunks, jobs, return_dict, idx,
                 read, error>>

\* monte_carlo_serial(digits, samples_per_digit), inside being the number
\* of the samples that fell in the circle; acc is its local inside
McSerial ==
  /\ func = "monte_carlo_serial" /\ pc = "call"
  /\ prec' = EntryPrec(func, digits, prec)
  /\ \E inside \in 0..total_samples :
       /\ acc' = inside
       /\ result' = McFormat(inside, total_samples, digits, prec')
  /\ pc' = "return"
  /\ UNCHANGED <<partVars, guiVars, argVars, chunks, jobs, return_dict, idx,
                 read, error>>

\* a parallel entry point up to its chunk list
ParallelEnter ==
  /\ func \in Parallel /\ pc = "call"
  /\ prec' = EntryPrec(func, digits, prec)
  /\ chunks' = IF func = "bbp_parallel" THEN BbpChunks(digits, chunk_size)
               ELSE McChunks(total_samples, chunk_size)
  /\ pc' = "spawn"
  /\ UNCHANGED <<partVars, guiVars, argVars, jobs, return_dict, idx, acc,
                 read, result, error>>

\* one turn of the loop that creates and starts the processes
Spawn ==
  /\ pc = "spawn"
  /\ jobs' = Append(jobs, [state |-> "started",
                           prec  |-> StartPrec(start_method, prec),
                           own   |-> FALSE])
  /\ IF idx + 1 = Len(chunks)
     THEN pc' = "join" /\ idx' = 0
     ELSE pc' = "spawn" /\ idx' = idx + 1
  /\ UNCHANGED <<partVars, guiVars, argVars, prec, chunks, return_dict, acc,
                 read, result, error>>

\* the worker of chunk i - 1 executes the first statement of its target
WorkerEnter(i) ==
  /\ i \in 1..Len(jobs)
  /\ jobs[i].state = "started"
  /\ jobs' = [jobs EXCEPT ![i] =
                [state |-> "running",
                 prec  |-> EntryPrec(Target(func), digits, jobs[i].prec),
                 own   |-> SetsPrec(Target(func))]]
  /\ UNCHANGED <<partVars, guiVars, argVars, pc, prec, chunks, return_dict,
                 idx, acc, read, result, error>>

\* a worker that stores under the first index whatever its own is
SlotZero(i) == 0

\* the idx the i-th process is started with: enumerate(chunks) counts from 0
Slot(i) == i - 1

\* the worker of chunk i - 1 runs its loop, stores its partial result under
\* its index and exits
WorkerFinish(i) ==
  /\ i \in 1..Len(jobs)
  /\ jobs[i].state = "running"
  /\ \E partial \in
         IF func = "bbp_parallel"
         THEN {SumTerms(D(0), chunks[i][1], chunks[i][2], jobs[i].prec)}
         ELSE 0..chunks[i][2] :
       return_dict' = [k \in DOMAIN return_dict \cup {Slot(i)} |->
                         IF k = Slot(i) THEN partial ELSE return_dict[k]]
  /\ jobs' = [jobs EXCEPT ![i].state = "exited"]
  /\ UNCHANGED <<partVars, guiVars, argVars, pc, prec, chunks, idx, acc, read,
                 result, error>>

\* the worker of chunk i - 1 dies (an exception, a signal) having stored
\* nothing
WorkerFail(i) ==
  /\ i \in 1..Len(jobs)
  /\ jobs[i].state \in {"started", "running"}
  /\ jobs' = [jobs EXCEPT ![i].state = "failed"]
  /\ UNCHANGED <<partVars, guiVars, argVars, pc, prec, chunks, return_dict,
                 idx, acc, read, result, error>>

\* p.join() returns: the process has terminated
JoinedAtOnce(job) == TRUE

\* a join that returns only for a process that stored its result
JoinedStored(job) == job.state = "exited"

Joined(job) == job.state \in {"exited", "failed"}

\* one turn of the loop that joins the processes
Join ==
  /\ pc = "join"
  /\ Joined(jobs[idx + 1])
  /\ IF idx + 1 = Len(jobs)
     THEN pc' = "sum" /\ idx' = 0 /\ acc' = SumStart(func)
     ELSE pc' = "join" /\ idx' = idx + 1 /\ UNCHANGED acc
  /\ UNCHANGED <<partVars, guiVars, argVars, prec, chunks, jobs, return_dict,
                 read, result, error>>

\* the keys the dict holds, in ascending order
RECURSIVE Sorted(_)
Sorted(S) ==
  IF S = {} THEN <<>>
  ELSE LET m == CHOOSE x \in S : \A y \in S : x <= y
       IN  <<m>> \o Sorted(S \ {m})

\* sorted(return_dict.keys())
SumKeysStored(n, d) == Sorted(DOMAIN d)

\* the keys sum() asks for: range(len(chunks))
SumKeys(n, d) == [j \in 1..n |-> j - 1]

\* one turn of sum(return_dict[idx] for idx in range(len(chunks))); a key
\* the dict does not hold raises KeyError
SumRead ==
  /\ pc = "sum"
  /\ LET keys == SumKeys(Len(chunks), return_dict)
     IN  /\ idx < Len(keys)
         /\ IF keys[idx + 1] \in DOMAIN return_dict
            THEN /\ acc' = IF func = "bbp_parallel"
                           THEN AddPartial(acc, return_dict[keys[idx + 1]],
                                           prec)
                           ELSE acc + return_dict[keys[idx + 1]]
                 /\ read' = read \cup {keys[idx + 1]}
                 /\ idx' = idx + 1
                 /\ UNCHANGED <<pc, error>>
            ELSE /\ pc' = "raise"
                 /\ error' = "KeyError"
                 /\ UNCHANGED <<acc, read, idx>>
  /\ UNCHANGED <<partVars, guiVars, argVars, prec, chunks, jobs, return_dict,
                 result>>

\* the sum is formatted and returned
Return ==
  /\ pc = "sum"
  /\ idx = Len(SumKeys(Len(chunks), return_dict))
  /\ result' = IF func = "bbp_parallel" THEN Format(acc, digits, prec)
               ELSE McFormat(acc, total_samples, digits, prec)
  /\ pc' = "return"
  /\ UNCHANGED <<partVars, guiVars, argVars, prec, chunks, jobs, return_dict,
                 idx, acc, read, error>>

NextCall ==
  \/ BbpSerial
  \/ McSerial
  \/ ParallelEnter
  \/ Spawn
  \/ \E i \in 1..MaxWorkers : WorkerEnter(i)
  \/ \E i \in 1..MaxWorkers : WorkerFinish(i)
  \/ \E i \in 1..MaxWorkers : WorkerFail(i)
  \/ Join
  \/ SumRead
  \/ Return

SpecCall == InitCall /\ [][NextCall]_vars

Terminated(job) == job.state \in {"exited", "failed"}

\* C2: sum() reads no slot until every worker that was started has
\* terminated, and every slot it has read was stored by the worker of that
\* chunk, which has exited.
C2_JoinBeforeSum ==
  /\ pc \in {"sum", "return", "raise"} =>
       /\ Len(jobs) = Len(chunks)
       /\ \A i \in 1..Len(jobs) : Terminated(jobs[i])
  /\ read # {} => \A i \in 1..Len(jobs) : Terminated(jobs[i])
  /\ \A k \in read : k \in DOMAIN return_dict /\ jobs[k + 1].state = "exited"

\* sum() has read two slots of a call with three workers or more
C2_SlotsReadAfterJoin ==
  /\ pc = "sum"
  /\ Cardinality(read) >= 2
  /\ Len(jobs) >= 3

\* C3: a call one of whose workers terminated without storing its partial
\* result does not return a string; when it ends, it ends raising KeyError.
C3_FailureFailsCall ==
  /\ (\E i \in 1..Len(jobs) : jobs[i].state = "failed") =>
       pc # "return" /\ result = <<>>
  /\ pc = "raise" =>
       /\ error = "KeyError"
       /\ result = <<>>
       /\ \E i \in 1..Len(jobs) : jobs[i].state = "failed"

\* a call that raised after reading the partial results of surviving
\* workers: one worker failed, the others stored theirs
C3_RaisedWithSurvivors ==
  /\ pc = "raise"
  /\ read # {}
  /\ Cardinality({i \in 1..Len(jobs) : jobs[i].state = "failed"}) = 1
  /\ Cardinality({i \in 1..Len(jobs) : jobs[i].state = "exited"}) >= 2

\* the workers that have stored their partial result and exited
Exited == {i \in 1..Len(jobs) : jobs[i].state = "exited"}

\* C12: the slots written are those of the workers that have exited, so
\* that they are 0 .. n - 1 once all n workers have exited; a slot once
\* written is never written again; and a step that writes writes one slot,
\* the one of the one worker that exits in that step, and leaves every other
\* worker as it was.
C12_OneWriteOwnSlot ==
  /\ [](/\ DOMAIN return_dict = {i - 1 : i \in Exited}
        /\ (Len(jobs) = Len(chunks) /\ Exited = 1..Len(jobs)) =>
             DOMAIN return_dict = 0..(Len(chunks) - 1))
  /\ [][\A k \in DOMAIN return_dict :
          k \in DOMAIN return_dict' /\ return_dict'[k] = return_dict[k]]_vars
  /\ [][DOMAIN return_dict' # DOMAIN return_dict =>
          \E i \in 1..Len(jobs) :
            /\ jobs[i].state = "running" /\ jobs'[i].state = "exited"
            /\ i - 1 \notin DOMAIN return_dict
            /\ DOMAIN return_dict' = DOMAIN return_dict \cup {i - 1}
            /\ \A j \in 1..Len(jobs) : j # i => jobs'[j] = jobs[j]]_vars

\* every worker of a call with three chunks or more has stored its partial
\* result, and nothing has been read yet
C12_AllSlotsWritten ==
  /\ Len(chunks) >= 3
  /\ Len(jobs) = Len(chunks)
  /\ Exited = 1..Len(jobs)
  /\ DOMAIN return_dict = 0..(Len(chunks) - 1)
  /\ read = {}

\* the partial results of the chunks from the k-th on, each computed at the
\* precision digits + 10, added to acc in the order of the chunk list
RECURSIVE SumChunks(_, _, _, _)
SumChunks(sum, list, k, p) ==
  IF k > Len(list) THEN sum
  ELSE SumChunks(AddPartial(sum, SumTerms(D(0), list[k][1], list[k][2], p),
                            p),
                 list, k + 1, p)

\* the pi of bbp_parallel(digits, chunk_size) when the workers run one
\* after the other in the order of their chunks
bbp_parallel_pi(d, c) == SumChunks(D(0), BbpChunks(d, c), 1, BbpPrec(d))

\* C13: whatever the order in which the workers started, ran and exited,
\* bbp_parallel returns with the sum of the partial results taken in the
\* order of the chunk indices, and with the string cut from that sum: the
\* one value and the one string that digits and chunk_size determine.
C13_ScheduleIndependent ==
  (pc = "return" /\ func = "bbp_parallel") =>
    /\ acc = bbp_parallel_pi(digits, chunk_size)
    /\ result = Format(bbp_parallel_pi(digits, chunk_size), digits,
                       BbpPrec(digits))

\* bbp_parallel has returned from a call with three workers or more, each
\* started in a fresh interpreter
C13_ReturnedManyWorkers ==
  /\ pc = "return"
  /\ func = "bbp_parallel"
  /\ Len(jobs) >= 3
  /\ start_method = "spawn"
  /\ acc = bbp_parallel_pi(digits, chunk_size)

\* the workers do overtake one another: the last has exited before the
\* first has entered its target
C13_LastWorkerFirst ==
  /\ func = "bbp_parallel"
  /\ Len(jobs) >= 3
  /\ jobs[Len(jobs)].state = "exited"
  /\ jobs[1].state = "started"

\* the samples the workers of chunks k .. are given, added up
RECURSIVE Samples(_, _)
Samples(list, k) ==
  IF k > Len(list) THEN 0 ELSE list[k][2] + Samples(list, k + 1)

\* C14: the samples monte_carlo_parallel gives its workers add up to
\* total_samples = digits * samples_per_digit, each worker being given at
\* least one and storing a count of hits no larger than what it was given;
\* so the count the call returns with lies in 0 .. total_samples, and the
\* string returned is that of 4 * count / total_samples.
C14_SamplesAddUp ==
  (func = "monte_carlo_parallel" /\ pc # "call") =>
    /\ Samples(chunks, 1) = total_samples
    /\ \A i \in 1..Len(chunks) : chunks[i][2] \in 1..chunk_size
    /\ \A i \in 1..Len(jobs) :
         jobs[i].state = "exited" => return_dict[i - 1] \in 0..chunks[i][2]
    /\ pc = "return" =>
         /\ acc \in 0..total_samples
         /\ result = McFormat(acc, total_samples, digits, McPrec(digits))

\* monte_carlo_parallel returned with every sample counted a hit, from a
\* call whose last worker was given fewer samples than the others
C14_AllHitsShortLastChunk ==
  /\ pc = "return"
  /\ func = "monte_carlo_parallel"
  /\ Len(chunks) >= 2
  /\ chunks[Len(chunks)][2] < chunk_size
  /\ acc = total_samples

(***************************************************************************)
(* The same calls with the scheduling the processes get: the calling       *)
(* process keeps running while it can take a step, and so does every       *)
(* worker process, whose loop is finite.  A step of the calling process is *)
(* a step that moves its position (pc, idx) and a step of a worker one     *)
(* that moves the state of its process; the fairness conditions are        *)
(* written on these moves, with the conditions under which the process has *)
(* a step to take.                                                         *)
(***************************************************************************)
\* the calling process is not blocked and has not ended: only join() blocks
CallerCanStep ==
  \/ pc \in {"call", "spawn", "sum"}
  \/ pc = "join" /\ Joined(jobs[idx + 1])

\* a step of the calling process
Caller ==
  /\ CallerCanStep
  /\ \E p \in {"spawn", "join", "sum", "return", "raise"} :
       \E k \in 0..MaxWorkers :
         pc' = p /\ idx' = k /\ <<p, k>> # <<pc, idx>>

\* a step of the worker process of chunk i - 1: into its target, or to its
\* end
Worker(i) ==
  /\ i \in 1..Len(jobs)
  /\ jobs[i].state \in {"started", "running"}
  /\ \E j \in {[state |-> "running",
                 prec  |-> EntryPrec(Target(func), digits, jobs[i].prec),
                 own   |-> SetsPrec(Target(func))],
                [jobs[i] EXCEPT !.state = "exited"],
                [jobs[i] EXCEPT !.state = "failed"]} :
       jobs' = [jobs EXCEPT ![i] = j] /\ j.state # jobs[i].state

SpecCallFair ==
  /\ InitCall
  /\ [][NextCall]_vars
  /\ WF_<<pc, idx>>(Caller)
  /\ \A i \in 1..MaxWorkers : WF_jobs(Worker(i))

\* C15: a call of bbp_parallel or monte_carlo_parallel whose workers all
\* terminate ends, returning a string or raising; and a caller waiting in
\* join() when all its workers have terminated goes on to end.
C15_ParallelCallEnds ==
  /\ (func \in Parallel /\ pc = "call") ~> (pc \in {"return", "raise"})
  /\ (/\ pc = "join"
      /\ \A i \in 1..Len(jobs) : Terminated(jobs[i]))
       ~> (pc \in {"return", "raise"})

\* monte_carlo_parallel has returned, all of its three or more workers
\* having exited
C15_ReturnedAfterAllExited ==
  /\ pc = "return"
  /\ func = "monte_carlo_parallel"
  /\ Len(jobs) >= 3
  /\ \A i \in 1..Len(jobs) : jobs[i].state = "exited"

\* the number of characters PiCalcWorker.run compares: [:102]
CompareLen == 102

\* C4: for chunk_size 1, digits and 2 * digits the string bbp_parallel
\* returns agrees with bbp_serial(digits) on the first min(digits + 2, 102)
\* characters.
C4_ParallelAgreesWithSerial ==
  (/\ pc = "return"
   /\ func = "bbp_parallel"
   /\ chunk_size \in {1, digits, 2 * digits}) =>
    Prefix(result, Min(digits + 2, CompareLen))
      = Prefix(bbp_serial(digits), Min(digits + 2, CompareLen))

\* bbp_parallel returned with one worker per term, three terms or more
C4_ReturnedOneTermPerWorker ==
  /\ pc = "return"
  /\ func = "bbp_parallel"
  /\ chunk_size = 1
  /\ digits >= 3
  /\ Len(jobs) = digits

DigitChars == {DigitChar(d) : d \in 0..9}

\* C5: every string an entry point returns has digits + 2 characters: a
\* digit, the decimal point and digits digits.
C5_FixedLength ==
  pc = "return" =>
    /\ Len(result) = digits + 2
    /\ result[1] \in DigitChars
    /\ result[2] = "."
    /\ \A i \in 3..Len(result) : result[i] \in DigitChars

\* C5, for the digit series alone
C5_BbpFixedLength ==
  (pc = "return" /\ func \in Bbp) =>
    /\ Len(result) = digits + 2
    /\ result[1] \in DigitChars
    /\ result[2] = "."
    /\ \A i \in 3..Len(result) : result[i] \in DigitChars

\* the sampling method returned a string shorter than digits + 2
C5_McShortString ==
  /\ pc = "return"
  /\ func \in Mc
  /\ Len(result) < digits + 2

Entered(job) == job.state \in {"running", "exited"}

PiExpansion ==
  <<"3", ".", "1", "4", "1", "5", "9", "2", "6", "5",
    "3", "5", "8", "9", "7", "9", "3", "2", "3", "8",
    "4", "6", "2", "6", "4", "3", "3", "8", "3", "2",
    "7", "9", "5", "0", "2", "8", "8", "4", "1", "9",
    "7", "1">>

\* C10: bbp_serial(digits) returns the first digits + 2 characters of the
\* decimal expansion of pi.
C10_SerialIsPi ==
  (pc = "return" /\ func = "bbp_serial") =>
    result = Prefix(PiExpansion, digits + 2)

\* C10 with its examples: bbp_serial(5) = "3.1415" and
\* bbp_serial(10) = "3.141592653"
C10_SerialExamples ==
  (pc = "return" /\ func = "bbp_serial") =>
    /\ result = Prefix(PiExpansion, digits + 2)
    /\ digits = 5 => result = <<"3", ".", "1", "4", "1", "5">>
    /\ digits = 10 =>
         result = <<"3", ".", "1", "4", "1", "5", "9", "2", "6", "5", "3">>

\* bbp_serial(5) returned "3.14159"
C10_SerialFive ==
  /\ pc = "return"
  /\ func = "bbp_serial"
  /\ digits = 5
  /\ result = <<"3", ".", "1", "4", "1", "5", "9">>

(***************************************************************************)
(* The formatter str(+pi)[:digits + 2] on its own: the entry points with   *)
(* more samples than a call above draws, every parallel call with one      *)
(* chunk.                                                                  *)
(***************************************************************************)
\* the most samples a call draws here
MaxFormatSamples == 21

InitFormat ==
  /\ NoPartition
  /\ NoWindow
  /\ func \in Serial \cup Parallel
  /\ digits \in 1..MaxDigits
  /\ samples_per_digit \in
       IF func \in Mc
       THEN {s \in 1..MaxFormatSamples : digits * s <= MaxFormatSamples}
       ELSE {0}
  /\ chunk_size =
       IF func = "bbp_parallel" THEN digits
       ELSE IF func = "monte_carlo_parallel" THEN digits * samples_per_digit
       ELSE 0
  /\ start_method \in IF func \in Parallel THEN {"fork", "spawn"} ELSE {"fork"}
  /\ pc = "call"
  /\ prec = DefaultContext.prec
  /\ chunks = <<>> /\ jobs = <<>> /\ return_dict = <<>>
  /\ idx = 0 /\ acc = 0 /\ read = {}
  /\ result = <<>> /\ error = "none"

SpecFormat == InitFormat /\ [][NextCall]_vars

\* 10 ** k
RECURSIVE Pow10(_)
Pow10(k) == IF k = 0 THEN 1 ELSE 10 * Pow10(k - 1)

\* the decimal expansion of 4 * inside / total, cut after d fractional
\* digits: integer arithmetic, nothing rounded
ExactExpansion(inside, total, d) ==
  LET n == (4 * inside * Pow10(d)) \div total
  IN  Chars(NatToDigits(n \div Pow10(d))) \o <<".">>
        \o Chars(PadLeft(NatToDigits(n % Pow10(d)), d))

\* s is made of the first characters of e
StartsWith(e, s) ==
  /\ Len(s) <= Len(e)
  /\ \A i \in 1..Len(s) : s[i] = e[i]

\* C11: the string returned is cut from the decimal expansion of the
\* aggregated value and no character of it is changed by rounding: in the
\* digit series it is the first digits + 2 characters of str(pi), in the
\* sampling method its characters are the first characters of the exact
\* expansion of 4 * inside / total_samples.
C11_TruncatesNeverRounds ==
  pc = "return" =>
    IF func \in Bbp
    THEN result = Prefix(DecStr(acc), digits + 2)
    ELSE StartsWith(ExactExpansion(acc, total_samples, digits), result)

\* C11, for the digit series alone
C11_BbpTruncates ==
  (pc = "return" /\ func \in Bbp) =>
    result = Prefix(DecStr(acc), digits + 2)

\* the sampling method returned a string one of whose characters is not the
\* character of the exact expansion: the quotient was rounded up
C11_McRoundedUp ==
  /\ pc = "return"
  /\ func \in Mc
  /\ Len(result) = digits + 2
  /\ \E i \in 1..Len(result) :
       result[i] # ExactExpansion(acc, total_samples, digits)[i]

(***************************************************************************)
(* main_gui.py: the window and its benchmark threads.                      *)
(***************************************************************************)
\* the range on_test accepts: digits < 1 or digits > 100000 is refused
InputMin == 1

InputMax == 100000

\* random.randint(600, 1000) and random.randint(3000, 5000)
SmallLo == 600

SmallHi == 1000

LargeLo == 3000

LargeHi == 5000

\* serial_func(10), parallel_func(10)
WarmupDigits == 10

\* the most threads the window starts
MaxRuns == 1

\* the texts typed into input_edit
Texts ==
  {<<>>,
   <<"0">>,
   <<" ", "1", "_", "0", " ">>,
   <<"1", "0", "0", "0", "0", "0">>,
   <<"1", "0", "0", "0", "0", "1">>,
   <<"-", "3">>,
   <<"3", ".", "5">>}

Whitespace == {" "}

\* s.strip()
StripText(s) ==
  LET keep == {i \in 1..Len(s) : s[i] \notin Whitespace}
  IN  IF keep = {} THEN <<>>
      ELSE SubSeq(s, CHOOSE i \in keep : \A j \in keep : i <= j,
                     CHOOSE i \in keep : \A j \in keep : i >= j)

DigitValue(c) == CHOOSE d \in 0..9 : DigitChar(d) = c

\* the value of a sequence of digits and underscores
RECURSIVE LiteralValue(_)
LiteralValue(s) ==
  IF s = <<>> THEN 0
  ELSE IF s[Len(s)] = "_" THEN LiteralValue(SubSeq(s, 1, Len(s) - 1))
  ELSE 10 * LiteralValue(SubSeq(s, 1, Len(s) - 1)) + DigitValue(s[Len(s)])

\* int(text): an optional sign and decimal digits, single underscores
\* between digits allowed, whitespace around ignored; ValueError otherwise
ParseInt(text) ==
  LET t      == StripText(text)
      signed == t # <<>> /\ t[1] \in {"+", "-"}
      body   == IF signed THEN Tail(t) ELSE t
      n      == Len(body)
      ok     == /\ n > 0
                /\ \A i \in 1..n : body[i] \in DigitChars \cup {"_"}
                /\ body[1] # "_" /\ body[n] # "_"
                /\ \A i \in 1..(n - 1) : ~(body[i] = "_" /\ body[i + 1] = "_")
  IN  IF ~ok THEN [ok |-> FALSE, val |-> 0]
      ELSE [ok  |-> TRUE,
            val |-> IF signed /\ t[1] = "-" THEN 0 - LiteralValue(body)
                    ELSE LiteralValue(body)]

\* str(digits)
IntToText(n) == Chars(NatToDigits(n))

\* a check without the upper limit
AcceptsAnyPositive(d) == ~(d < InputMin)

\* what on_test lets through: not (digits < 1 or digits > 100000)
Accepts(d) == ~(d < InputMin \/ d > InputMax)

\* the values random.randint(lo, hi) is taken to return: lo <= N <= hi
RandInt(lo, hi) == {lo, hi}

(***************************************************************************)
(* A string an entry point returned is kept as its first 102 characters    *)
(* (head) and the rest (tail); a string of 102 characters or less has the  *)
(* tail "".  A run compares the strings of its own two entry points only,  *)
(* so a string is told apart by how it stands to the serial result of its  *)
(* run, which is written a-x: the same string, b-x that differs from it    *)
(* within the first 102 characters, a-y that differs from it after them    *)
(* only.                                                                   *)
(***************************************************************************)
Str(h, t) == [head |-> h, tail |-> t]

NoString == Str("", "")

Strings(d) ==
  IF d + 2 > CompareLen THEN {Str("a", "x"), Str("b", "x"), Str("a", "y")}
  ELSE {Str("a", ""), Str("b", "")}

\* s[:102]
First102(s) == s.head

\* a comparison of the whole strings
MismatchWhole(s, q) == s # q

\* pi_serial[:102] != pi_parallel[:102]
Mismatch(s, q) == First102(s) # First102(q)

\* bbp_serial and monte_carlo_serial: the string the others are told apart
\* from
SerialResults(algo, d) ==
  {Str("a", IF d + 2 > CompareLen THEN "x" ELSE "")}

\* bbp_parallel and monte_carlo_parallel: the digit series returns what it
\* returned before for the same digits, the sampling method any string
ParallelResults(algo, d, before) ==
  IF algo = "BBP" /\ before # NoString THEN {before} ELSE Strings(d)

Call(f, d) == [f |-> f, d |-> d]

\* PiCalcWorker(digits, signals, algo).  A duration is kept as the place in
\* calls of the call it was measured around, 0 while none is measured.
PiCalcWorker(d, algo) ==
  [digits |-> d, algo |-> algo, pc |-> "warmup", pi_serial |-> NoString,
   pi_first |-> NoString, pi_parallel |-> NoString, calls |-> <<>>,
   serial_time |-> 0, parallel_time |-> 0, emitted |-> <<>>]

\* run() returns having emitted a signal: the thread ends, and its local
\* variables with it
Ended(t, signal) ==
  [t EXCEPT !.pc = "done", !.emitted = Append(@, signal),
            !.pi_serial = NoString, !.pi_first = NoString,
            !.pi_parallel = NoString, !.serial_time = 0,
            !.parallel_time = 0]

\* a handler that swallows the exception: the thread ends without a signal
ExceptSilent(t) ==
  [t EXCEPT !.pc = "done", !.pi_serial = NoString, !.pi_first = NoString,
            !.pi_parallel = NoString, !.serial_time = 0,
            !.parallel_time = 0]

\* the handler of run(): the error signal
Except(t) == Ended(t, "error")

InitGui ==
  /\ NoPartition
  /\ NoCall
  /\ NoWindow

\* the user types a text into input_edit
EditText ==
  /\ \E text \in Texts : input_text' = text
  /\ UNCHANGED <<partVars, coreVars, algo_combo, info_panel, threads,
                 result_files, compare>>

\* the user picks an algorithm in algo_combo
SelectAlgo ==
  /\ \E k \in {0, 1} : algo_combo' = k
  /\ UNCHANGED <<partVars, coreVars, input_text, info_panel, threads,
                 result_files, compare>>

\* run_calc(digits): the thread is created and started
run_calc(d) ==
  /\ Len(threads) < MaxRuns
  /\ threads' = Append(threads,
                       PiCalcWorker(d, IF algo_combo = 0 THEN "BBP"
                                       ELSE "MonteCarlo"))

\* on_test
OnTest ==
  /\ LET digits_ == ParseInt(input_text)
     IN  IF ~digits_.ok
         THEN info_panel' = "invalid" /\ UNCHANGED threads
         ELSE IF ~Accepts(digits_.val)
         THEN info_panel' = "range" /\ UNCHANGED threads
         ELSE info_panel' = "computing" /\ run_calc(digits_.val)
  /\ UNCHANGED <<partVars, coreVars, input_text, algo_combo, result_files,
                 compare>>

\* on_small_task
OnSmallTask ==
  /\ \E d \in RandInt(SmallLo, SmallHi) :
       /\ input_text' = IntToText(d)
       /\ info_panel' = "computing"
       /\ run_calc(d)
  /\ UNCHANGED <<partVars, coreVars, algo_combo, result_files, compare>>

\* on_large_task
OnLargeTask ==
  /\ \E d \in RandInt(LargeLo, LargeHi) :
       /\ input_text' = IntToText(d)
       /\ info_panel' = "computing"
       /\ run_calc(d)
  /\ UNCHANGED <<partVars, coreVars, algo_combo, result_files, compare>>

(***************************************************************************)
(* PiCalcWorker.run, thread i.  A parallel call may raise (KeyError, when  *)
(* a worker stored nothing), and so may the opening of a file; whatever is *)
(* raised ends the run with the error signal.  The slot connected to a     *)
(* signal, info_panel.setText, is taken to run with the emission.          *)
(***************************************************************************)
\* serial_func(10); parallel_func(10)
Warmup(i) ==
  /\ i \in 1..Len(threads)
  /\ threads[i].pc = "warmup"
  /\ LET t == [threads[i] EXCEPT
                 !.calls = <<Call("serial", WarmupDigits),
                             Call("parallel", WarmupDigits)>>]
     IN  \/ /\ threads' = [threads EXCEPT ![i] = [t EXCEPT !.pc = "serial"]]
            /\ UNCHANGED info_panel
         \/ /\ threads' = [threads EXCEPT ![i] = Except(t)]
            /\ info_panel' = "error"
  /\ UNCHANGED <<partVars, coreVars, input_text, algo_combo, result_files,
                 compare>>

\* pi_serial = serial_func(self.digits)
SerialRun(i) ==
  /\ i \in 1..Len(threads)
  /\ threads[i].pc = "serial"
  /\ \E r \in SerialResults(threads[i].algo, threads[i].digits) :
       threads' = [threads EXCEPT ![i] =
                     [@ EXCEPT !.pi_serial = r,
                               !.calls = Append(@, Call("serial",
                                                        threads[i].digits)),
                               !.serial_time = Len(threads[i].calls) + 1,
                               !.pc = "parallel"]]
  /\ UNCHANGED <<partVars, coreVars, input_text, algo_combo, info_panel,
                 result_files, compare>>

\* pi_parallel = parallel_func(self.digits)
ParallelRun(i) ==
  /\ i \in 1..Len(threads)
  /\ threads[i].pc = "parallel"
  /\ LET t == [threads[i] EXCEPT
                 !.calls = Append(@, Call("parallel", threads[i].digits))]
     IN  \/ /\ \E r \in ParallelResults(t.algo, t.digits, NoString) :
                 threads' = [threads EXCEPT ![i] =
                               [t EXCEPT !.pi_first = r, !.pi_parallel = r,
                                         !.parallel_time = Len(t.calls),
                                         !.pc = "verify"]]
            /\ UNCHANGED info_panel
         \/ /\ threads' = [threads EXCEPT ![i] = Except(t)]
            /\ info_panel' = "error"
  /\ UNCHANGED <<partVars, coreVars, input_text, algo_combo, result_files,
                 compare>>

\* a retry measured like the first parallel call: its duration, that of
\* call k, takes the place of parallel_time
RetryTimed(t, k) == k

\* the parallel_time of a run whose retry was call k: the retry lies after
\* t4 and assigns nothing but pi_parallel
RetryTime(t, k) == t.parallel_time

\* the result file of a run, in what it holds of the run's measurements
ResultFile(t) ==
  [algo |-> t.algo, digits |-> t.digits, serial_time |-> t.serial_time,
   parallel_time |-> t.parallel_time, parallel_call |-> Len(t.calls)]

\* the line of a run in the compare file
CompareLine(t) ==
  [digits |-> t.digits, serial_time |-> t.serial_time,
   parallel_time |-> t.parallel_time]

\* if pi_serial[:102] != pi_parallel[:102]:
\*     pi_parallel = parallel_func(self.digits)
Verify(i) ==
  /\ i \in 1..Len(threads)
  /\ threads[i].pc = "verify"
  /\ IF Mismatch(threads[i].pi_serial, threads[i].pi_parallel)
     THEN LET t == [threads[i] EXCEPT
                      !.calls = Append(@, Call("parallel", threads[i].digits))]
          IN  \/ /\ \E r \in ParallelResults(t.algo, t.digits, t.pi_parallel) :
                      threads' = [threads EXCEPT ![i] =
                                    [t EXCEPT !.pi_parallel = r,
                                              !.parallel_time =
                                                RetryTime(t, Len(t.calls)),
                                              !.pc = "save"]]
                 /\ UNCHANGED info_panel
              \/ /\ threads' = [threads EXCEPT ![i] = Except(t)]
                 /\ info_panel' = "error"
     ELSE /\ threads' = [threads EXCEPT ![i].pc = "save"]
          /\ UNCHANGED info_panel
  /\ UNCHANGED <<partVars, coreVars, input_text, algo_combo, result_files,
                 compare>>

\* the result file is written, a line is appended to the compare file of
\* the algorithm and result_ready is emitted
Save(i) ==
  /\ i \in 1..Len(threads)
  /\ threads[i].pc = "save"
  /\ \/ /\ result_files' = Append(result_files, ResultFile(threads[i]))
        /\ compare' = [compare EXCEPT ![threads[i].algo] =
                         Append(@, CompareLine(threads[i]))]
        /\ threads' = [threads EXCEPT ![i] = Ended(@, "result_ready")]
        /\ info_panel' = "result"
     \/ \* the result file cannot be opened
        /\ UNCHANGED <<result_files, compare>>
        /\ threads' = [threads EXCEPT ![i] = Except(@)]
        /\ info_panel' = "error"
     \/ \* the compare file cannot be opened
        /\ result_files' = Append(result_files, ResultFile(threads[i]))
        /\ UNCHANGED compare
        /\ threads' = [threads EXCEPT ![i] = Except(@)]
        /\ info_panel' = "error"
  /\ UNCHANGED <<partVars, coreVars, input_text, algo_combo>>

NextGui ==
  \/ EditText
  \/ SelectAlgo
  \/ OnTest
  \/ OnSmallTask
  \/ OnLargeTask
  \/ \E i \in 1..MaxRuns : Warmup(i)
  \/ \E i \in 1..MaxRuns : SerialRun(i)
  \/ \E i \in 1..MaxRuns : ParallelRun(i)
  \/ \E i \in 1..MaxRuns : Verify(i)
  \/ \E i \in 1..MaxRuns : Save(i)

SpecGui == InitGui /\ [][NextGui]_vars

\* the calls of a thread after its two warm-up calls
Timed(t) == SubSeq(t.calls, 3, Len(t.calls))

\* how many times a thread has called parallel_func(d)
ParallelCalls(t, d) ==
  Cardinality({k \in 1..Len(t.calls) : t.calls[k] = Call("parallel", d)})

\* the comparison is behind the thread, and what it keeps is about to be
\* written
Verified(t) == t.pc = "save"

C7_SamplingNeverRecomputed ==
  \A i \in 1..Len(threads) :
    threads[i].algo = "MonteCarlo" =>
      Cardinality({k \in 1..Len(Timed(threads[i])) :
                     Timed(threads[i])[k].f = "parallel"}) <= 1

\* a run of the sampling method that has recomputed its parallel result
C7_SamplingRecomputed ==
  \E i \in 1..Len(threads) :
    /\ threads[i].algo = "MonteCarlo"
    /\ Verified(threads[i])
    /\ Timed(threads[i]) = <<Call("serial", threads[i].digits),
                             Call("parallel", threads[i].digits),
                             Call("parallel", threads[i].digits)>>

\* the text is an integer literal whose value lies in 1..100000
ValidInput(text) ==
  /\ ParseInt(text).ok
  /\ ParseInt(text).val \in InputMin..InputMax

\* C9: every thread is started with digits in 1..100000 and calls the entry
\* points with its digits or the warm-up's 10 only; a thread is started
\* either for the value of the text, an integer in 1..100000, or for the
\* number a task button drew and wrote into the text; and a step that
\* starts a thread and leaves the text as it is finds such an integer in it,
\* so that no thread is started over a text that is not one.
C9_OnlyValidDigitsStart ==
  /\ [](\A i \in 1..Len(threads) :
          /\ threads[i].digits \in InputMin..InputMax
          /\ \A k \in 1..Len(threads[i].calls) :
               /\ threads[i].calls[k].d \in {threads[i].digits, WarmupDigits}
               /\ threads[i].calls[k].d \in InputMin..InputMax)
  /\ [][Len(threads') > Len(threads) =>
          LET t == threads'[Len(threads')]
          IN  \/ /\ ValidInput(input_text)
                 /\ ParseInt(input_text).val = t.digits
                 /\ input_text' = input_text
              \/ /\ input_text' = IntToText(t.digits)
                 /\ \/ t.digits \in SmallLo..SmallHi
                    \/ t.digits \in LargeLo..LargeHi]_vars
  /\ [][(Len(threads') # Len(threads) /\ input_text' = input_text) =>
          ValidInput(input_text)]_vars

\* a thread started for the largest digits on_test accepts has called
\* parallel_func with it
C9_LargestInputReachedCore ==
  \E i \in 1..Len(threads) :
    /\ threads[i].digits = InputMax
    /\ \E k \in 1..Len(threads[i].calls) :
         threads[i].calls[k] = Call("parallel", InputMax)
\* the thread was in a statement that can raise
CanRaise(t) == t.pc \in {"warmup", "parallel", "verify", "save"}

\* C16: a run has emitted nothing until it ends and one signal when it has
\* ended, result_ready or error; a run that has emitted does nothing more;
\* result_ready is emitted by the step that has written the result file and
\* appended the line to the compare file, all calls made; and error is
\* emitted by a step in which a statement raised, the line not appended.
C16_OneSignalPerRun ==
  /\ [](\A i \in 1..Len(threads) :
          /\ threads[i].emitted
               \in {<<>>, <<"result_ready">>, <<"error">>}
          /\ threads[i].pc = "done" <=> threads[i].emitted # <<>>)
  /\ [][\A i \in 1..Len(threads) :
          threads[i].emitted # <<>> => threads'[i] = threads[i]]_vars
  /\ [][\A i \in 1..Len(threads) :
          (threads[i].emitted = <<>> /\ threads'[i].emitted # <<>>) =>
            IF threads'[i].emitted = <<"result_ready">>
            THEN /\ threads[i].pc = "save"
                 /\ Len(threads[i].calls) \in {4, 5}
                 /\ Len(result_files') = Len(result_files) + 1
                 /\ Len(compare'[threads[i].algo])
                      = Len(compare[threads[i].algo]) + 1
                 /\ info_panel' = "result"
            ELSE /\ CanRaise(threads[i])
                 /\ compare' = compare
                 /\ info_panel' = "error"]_vars

\* a run that wrote its result file, could not open the compare file and
\* ended with the error signal
C16_ErrorAfterResultFile ==
  /\ Len(result_files) = 1
  /\ compare = [BBP |-> <<>>, MonteCarlo |-> <<>>]
  /\ \E i \in 1..Len(threads) :
       /\ threads[i].pc = "done"
       /\ threads[i].emitted = <<"error">>
       /\ Len(threads[i].calls) >= 4

\* C17: the retry assigns pi_parallel and nothing else of what the run has
\* measured: it leaves pi_serial, serial_time and parallel_time as they
\* were; and the durations in every result file and in every line of a
\* compare file are those of the first serial call and of the first
\* parallel call after the warm-up, the third and the fourth call of the
\* run, also when the run made a fifth, the retry.
C17_RetryKeepsTimings ==
  /\ [](/\ \A k \in 1..Len(result_files) :
             /\ result_files[k].serial_time = 3
             /\ result_files[k].parallel_time = 4
             /\ result_files[k].parallel_call \in {4, 5}
        /\ \A a \in {"BBP", "MonteCarlo"} :
             \A k \in 1..Len(compare[a]) :
               /\ compare[a][k].serial_time = 3
               /\ compare[a][k].parallel_time = 4
        /\ \A i \in 1..Len(threads) :
             threads[i].pc = "save" =>
               /\ threads[i].calls[3] = Call("serial", threads[i].digits)
               /\ threads[i].calls[4] = Call("parallel", threads[i].digits)
               /\ threads[i].serial_time = 3
               /\ threads[i].parallel_time = 4)
  /\ [][\A i \in 1..Len(threads) :
          (threads[i].pc = "verify" /\ threads'[i].pc = "save") =>
            /\ threads'[i].pi_serial = threads[i].pi_serial
            /\ threads'[i].serial_time = threads[i].serial_time
            /\ threads'[i].parallel_time = threads[i].parallel_time
            /\ threads'[i].pi_first = threads[i].pi_parallel]_vars

\* a run whose parallel result came from the retry has written its result
\* file and its line in the compare file
C17_RetriedRunSaved ==
  \E k \in 1..Len(result_files) :
    /\ result_files[k].parallel_call = 5
    /\ Len(compare[result_files[k].algo]) = 1
====
